---------------------------- MODULE Spec2Model ----------------------------
(***************************************************************************)
(* A model of sqlar-vault's FileStorageManager (the createSQLiteVault      *)
(* version): a virtual-directory file archive kept in the single SQLite    *)
(* table sqlar(name PRIMARY KEY, mode, mtime, sz, data).                    *)
(*                                                                         *)
(* Strings are sequences of one-character strings, so that trimming,      *)
(* character replacement, joining and SQL LIKE matching are computed as    *)
(* the code and the engine compute them.  Byte buffers are sequences of    *)
(* small integers.                                                         *)
(***************************************************************************)
EXTENDS Integers, Sequences, FiniteSets, TLC

VARIABLES
    db,        \* the sqlar table: its rows, in rowid order
    pending,   \* storeFile calls suspended on `await blobToBuffer(file)`
    last       \* the call that completed last: operation, arguments, outcome

vars == <<db, pending, last>>

-----------------------------------------------------------------------------
(* Bounds of the model *)

MaxFiles == 2      \* rows the table may hold
MaxLen == 3        \* longest byte buffer stored
MaxMtime == 2      \* modification times are 1..MaxMtime
MaxCalls == 2      \* storeFile calls that may be suspended at once
MaxPerPage == 2    \* page sizes are 1..MaxPerPage
MaxPage == 2       \* page numbers are at most MaxPage
MaxSegs == 2       \* segments in a directory path that is sanitized
MaxSegLen == 2     \* characters in a segment that is sanitized

-----------------------------------------------------------------------------
(* Characters and strings *)

\* the code point of a character: BINARY collation compares by code point
Ord(c) ==
    CASE c = " " -> 32
      [] c = "%" -> 37
      [] c = "/" -> 47
      [] c = "A" -> 65
      [] c = "X" -> 88
      [] c = "\\" -> 92
      [] c = "_" -> 95
      [] c = "a" -> 97
      [] c = "b" -> 98
      [] c = "c" -> 99
      [] c = "x" -> 120
      [] c = "y" -> 121

\* ASCII lower-casing, as SQLite's LIKE folds case
Lower(c) ==
    CASE c = "A" -> "a"
      [] c = "X" -> "x"
      [] OTHER -> c

\* the regular expression class \s
IsSpace(c) == c = " "

RECURSIVE TrimStart(_)
TrimStart(s) ==
    IF s # <<>> /\ IsSpace(Head(s)) THEN TrimStart(Tail(s)) ELSE s

RECURSIVE TrimEnd(_)
TrimEnd(s) ==
    IF s # <<>> /\ IsSpace(s[Len(s)]) THEN TrimEnd(SubSeq(s, 1, Len(s) - 1)) ELSE s

\* String.prototype.trim
trim(s) == TrimEnd(TrimStart(s))

\* the replacement written without the backslash alternative
replaceSeparatorsNoBackslash(s) ==
    [i \in 1..Len(s) |-> IF s[i] = "/" \/ IsSpace(s[i]) THEN "_" ELSE s[i]]

\* dir.replace(/\/|\s|\\/g, "_")
replaceSeparators(s) ==
    [i \in 1..Len(s) |->
        IF s[i] = "/" \/ IsSpace(s[i]) \/ s[i] = "\\" THEN "_" ELSE s[i]]

\* Array.prototype.join
RECURSIVE join(_, _)
join(segs, sep) ==
    IF segs = <<>> THEN <<>>
    ELSE IF Len(segs) = 1 THEN segs[1]
         ELSE segs[1] \o sep \o join(Tail(segs), sep)

\* lexicographic comparison of two strings by code point (memcmp)
RECURSIVE StrLess(_, _)
StrLess(s, t) ==
    IF t = <<>> THEN FALSE
    ELSE IF s = <<>> THEN TRUE
    ELSE IF Ord(Head(s)) # Ord(Head(t)) THEN Ord(Head(s)) < Ord(Head(t))
    ELSE StrLess(Tail(s), Tail(t))

\* s begins with the exact string p
StartsWith(s, p) == Len(s) >= Len(p) /\ SubSeq(s, 1, Len(p)) = p

-----------------------------------------------------------------------------
(* Path sanitizer and key composer *)

\* the filter of sanitizePath: (dir) => dir.trim() !== ""
sanitizePathKeeps(dir) == trim(dir) # <<>>

sanitizePath(filePath) ==
    LET kept == SelectSeq(filePath, sanitizePathKeeps)
    IN  [i \in 1..Len(kept) |-> replaceSeparators(trim(kept[i]))]

createFileNameWithPath(filePath, fileName) ==
    LET sanitizedPath == join(sanitizePath(filePath), <<"/">>)
    IN  IF sanitizedPath = <<>>
        THEN <<"/">> \o fileName
        ELSE <<"/">> \o sanitizedPath \o <<"/">> \o fileName

-----------------------------------------------------------------------------
(* The compression collaborator (the sqlar extension's SQL functions).      *)
(* Compression is run-length coding: <<n1, b1, n2, b2, ...>>.               *)

RECURSIVE runLength(_)
runLength(b) ==
    IF Len(b) >= 2 /\ b[2] = b[1] THEN 1 + runLength(Tail(b)) ELSE 1

RECURSIVE deflate(_)
deflate(b) ==
    IF b = <<>> THEN <<>>
    ELSE LET n == runLength(b)
         IN  <<n, b[1]>> \o deflate(SubSeq(b, n + 1, Len(b)))

RECURSIVE inflate(_)
inflate(d) ==
    IF Len(d) < 2 THEN <<>>
    ELSE [i \in 1..d[1] |-> d[2]] \o inflate(SubSeq(d, 3, Len(d)))

\* sqlar_compress(X): the compressed form when it is shorter, else X itself
sqlar_compress(b) ==
    LET c == deflate(b) IN IF Len(c) < Len(b) THEN c ELSE b

\* sqlar_uncompress(Y, SZ): Y itself when SZ <= 0 or SZ is Y's length
sqlar_uncompress(data, sz) ==
    IF sz <= 0 \/ sz = Len(data) THEN data ELSE inflate(data)

\* datetime(mtime, 'unixepoch'): a text value, not the stored integer
datetime(mtime) == [datetime |-> mtime]

-----------------------------------------------------------------------------
(* The record store: the sqlar table and the statements run against it *)

\* the permission bits every insert writes
Mode644 == 420

\* the insert into a table declared without PRIMARY KEY
InsertRowUnchecked(table, row) ==
    [ok |-> TRUE, table |-> Append(table, row)]

\* INSERT INTO sqlar ...: name is the PRIMARY KEY, so a row whose name is
\* already in the table is rejected (SQLITE_CONSTRAINT_PRIMARYKEY)
InsertRow(table, row) ==
    IF \E i \in 1..Len(table) : table[i].name = row.name
    THEN [ok |-> FALSE, table |-> table]
    ELSE [ok |-> TRUE, table |-> Append(table, row)]

\* the lookup made with the name stripped of its leading "/"
fileExistsBareName(table, filePath) ==
    \E i \in 1..Len(table) : table[i].name = Tail(filePath)

\* SELECT name FROM sqlar WHERE name = ?
fileExists(table, filePath) ==
    \E i \in 1..Len(table) : table[i].name = filePath

\* X LIKE pattern, as SQLite evaluates it by default: % matches any run of
\* characters, _ matches any one character, letters match whatever their case
RECURSIVE Like(_, _)
Like(pattern, s) ==
    IF pattern = <<>> THEN s = <<>>
    ELSE IF Head(pattern) = "%"
         THEN Like(Tail(pattern), s) \/ (s # <<>> /\ Like(pattern, Tail(s)))
    ELSE /\ s # <<>>
         /\ (Head(pattern) = "_" \/ Lower(Head(pattern)) = Lower(Head(s)))
         /\ Like(Tail(pattern), Tail(s))

\* the rows of the table whose name is LIKE the pattern, in scan order
RowsLike(table, pattern) ==
    LET matches(row) == Like(pattern, row.name) IN SelectSeq(table, matches)

\* the delete written with LIKE in place of =
DeleteNamedLike(table, name) ==
    LET keeps(row) == ~Like(name, row.name) IN SelectSeq(table, keeps)

\* DELETE FROM sqlar WHERE name = ?
DeleteNamed(table, name) ==
    LET keeps(row) == row.name # name IN SelectSeq(table, keeps)

\* DELETE FROM sqlar WHERE name LIKE ?
DeleteLike(table, pattern) ==
    LET keeps(row) == ~Like(pattern, row.name) IN SelectSeq(table, keeps)

\* does row r come before row q under ORDER BY orderBy order
\* (the text of orderBy and order is read as SQL: any column sorts, and
\* keywords are recognised in either case)
SortsBefore(r, q, orderBy, order) ==
    LET less(x, y) ==
            CASE orderBy = "name"  -> StrLess(x.name, y.name)
              [] orderBy = "mtime" -> x.mtime < y.mtime
              [] orderBy = "sz"    -> x.sz < y.sz
              [] orderBy = "mode"  -> x.mode < y.mode
    IN  IF order \in {"ASC", "asc"} THEN less(r, q) ELSE less(q, r)

\* ORDER BY orderBy order: rows that tie keep their scan order
OrderBy(rows, orderBy, order) ==
    LET n == Len(rows)
        rank(i) == Cardinality({j \in 1..n :
                       \/ SortsBefore(rows[j], rows[i], orderBy, order)
                       \/ /\ ~SortsBefore(rows[i], rows[j], orderBy, order)
                          /\ j < i})
    IN  [k \in 1..n |-> rows[CHOOSE i \in 1..n : rank(i) = k - 1]]

\* LIMIT skip, count: a negative count is no limit, a negative skip is 0
Limit(rows, skip, count) ==
    LET from == IF skip < 0 THEN 0 ELSE skip
        upto == IF count < 0 \/ from + count > Len(rows)
                THEN Len(rows) ELSE from + count
    IN  SubSeq(rows, from + 1, upto)

\* the columns listFiles and searchFiles select
ListedColumns(row) ==
    [name |-> row.name, mode |-> row.mode, mtime |-> datetime(row.mtime),
     sz |-> row.sz]

-----------------------------------------------------------------------------
(* The vault facade: what each handler does to the table and returns.       *)
(* A file argument is [type |-> "Buffer" or "Blob", bytes |-> its bytes].   *)

\* Buffer.from(await blob.arrayBuffer())
blobToBuffer(blob) == blob.bytes

\* the insert written with sz taken from the compressed bytes
storeFileInsertStoredSize(table, fileNameWithPath, fileName, fileBuffer, modifiedTime) ==
    LET row == [name  |-> fileNameWithPath,
                mode  |-> Mode644,
                mtime |-> modifiedTime,
                sz    |-> Len(sqlar_compress(fileBuffer)),
                data  |-> sqlar_compress(fileBuffer)]
        ins == InsertRow(table, row)
    IN  IF ins.ok
        THEN [table  |-> ins.table,
              result |-> [success |-> TRUE, fileName |-> fileName,
                          fileNameWithPath |-> fileNameWithPath]]
        ELSE [table  |-> table,
              result |-> [thrown |-> "SQLITE_CONSTRAINT_PRIMARYKEY"]]

\* storeFile from its INSERT on: the insert throws when the key is taken
storeFileInsert(table, fileNameWithPath, fileName, fileBuffer, modifiedTime) ==
    LET row == [name  |-> fileNameWithPath,
                mode  |-> Mode644,
                mtime |-> modifiedTime,
                sz    |-> Len(fileBuffer),
                data  |-> sqlar_compress(fileBuffer)]
        ins == InsertRow(table, row)
    IN  IF ins.ok
        THEN [table  |-> ins.table,
              result |-> [success |-> TRUE, fileName |-> fileName,
                          fileNameWithPath |-> fileNameWithPath]]
        ELSE [table  |-> table,
              result |-> [thrown |-> "SQLITE_CONSTRAINT_PRIMARYKEY"]]

retrieveFile(table, dir, fileName) ==
    LET fileNameWithPath == createFileNameWithPath(dir, fileName)
    IN  IF \E i \in 1..Len(table) : table[i].name = fileNameWithPath
        THEN LET row == table[CHOOSE i \in 1..Len(table) :
                                  table[i].name = fileNameWithPath]
             IN  [success |-> TRUE,
                  file |-> [name  |-> row.name,
                            mode  |-> row.mode,
                            mtime |-> datetime(row.mtime),
                            data  |-> sqlar_uncompress(row.data, row.sz),
                            sz    |-> row.sz]]
        ELSE [success |-> FALSE, error |-> "FileNotFound"]

deleteFile(table, dir, fileName) ==
    LET fileNameWithPath == createFileNameWithPath(dir, fileName)
        after == DeleteNamed(table, fileNameWithPath)
        changes == Len(table) - Len(after)
    IN  IF changes = 0
        THEN [table |-> after, result |-> [success |-> FALSE, error |-> "FileNotFound"]]
        ELSE [table |-> after, result |-> [success |-> TRUE]]

\* the pattern written without the "/" that closes the directory
directoryPatternOpen(sanitizedPath) == <<"/">> \o sanitizedPath \o <<"%">>

\* `/${sanitizedPath}/%`: the LIKE pattern of a directory's entries
directoryPattern(sanitizedPath) == <<"/">> \o sanitizedPath \o <<"/", "%">>

\* the count that leaves out the entries at the root
getTotalFilesInDirectories(table) ==
    [total |-> Len(RowsLike(table, <<"/", "%", "/", "%">>))]

\* SELECT count(*) as total FROM sqlar
getTotalFiles(table) == [total |-> Len(table)]

\* the part of the scan's text that the template string fills in:
\* `... ORDER BY ${orderBy} ${order} LIMIT :skip, :filesPerPage`
scanStatement(orderBy, order) == <<"ORDER BY", orderBy, order, "LIMIT">>

\* the offset written for page numbers that count from 0
skipZeroBased(pageNumber, filesPerPage) ==
    IF pageNumber <= 1 THEN 0 ELSE pageNumber * filesPerPage

\* const skip = pageNumber <= 1 ? 0 : (pageNumber - 1) * filesPerPage
skip(pageNumber, filesPerPage) ==
    IF pageNumber <= 1 THEN 0 ELSE (pageNumber - 1) * filesPerPage

\* the listing whose count statement has no WHERE clause
listFilesCountsArchive(table, dir, filesPerPage, pageNumber, orderBy, order) ==
    LET sanitizedPath == join(sanitizePath(dir), <<"/">>)
        matching == RowsLike(table, directoryPattern(sanitizedPath))
        page == Limit(OrderBy(matching, orderBy, order),
                      skip(pageNumber, filesPerPage), filesPerPage)
    IN  [files |-> [i \in 1..Len(page) |-> ListedColumns(page[i])],
         totalFiles |-> Len(table),
         currentPage |-> pageNumber, success |-> TRUE]

listFiles(table, dir, filesPerPage, pageNumber, orderBy, order) ==
    LET sanitizedPath == join(sanitizePath(dir), <<"/">>)
        pattern == directoryPattern(sanitizedPath)
        matching == RowsLike(table, pattern)
        total == Len(matching)
        page == Limit(OrderBy(matching, orderBy, order),
                      skip(pageNumber, filesPerPage), filesPerPage)
        filesList == [i \in 1..Len(page) |-> ListedColumns(page[i])]
    IN  [files |-> filesList, totalFiles |-> total,
         currentPage |-> pageNumber, success |-> TRUE]

\* the scope of searchFiles: "%" for an empty sanitized path, else the
\* directory's pattern
searchScope(sanitizedPath) ==
    IF sanitizedPath = <<>> THEN <<"%">> ELSE directoryPattern(sanitizedPath)

searchFiles(table, fileName, dir, filesPerPage, pageNumber, orderBy, order) ==
    LET sanitizedPath == searchScope(join(sanitizePath(dir), <<"/">>))
        pattern == sanitizedPath \o fileName \o <<"%">>
        matching == RowsLike(table, pattern)
        total == Len(matching)
        page == Limit(OrderBy(matching, orderBy, order),
                      skip(pageNumber, filesPerPage), filesPerPage)
        filesList == [i \in 1..Len(page) |-> ListedColumns(page[i])]
    IN  [files |-> filesList, totalFiles |-> total,
         currentPage |-> pageNumber, success |-> TRUE]

\* the delete-all that reports an archive already empty as an error
deleteAllFilesReportsEmpty(table) ==
    IF Len(table) = 0
    THEN [table |-> <<>>, result |-> [success |-> FALSE, error |-> "NoFilesToDelete"]]
    ELSE [table |-> <<>>, result |-> [success |-> TRUE]]

deleteAllFiles(table) ==
    [table |-> <<>>, result |-> [success |-> TRUE]]

\* the delete that does not look at the number of rows it changed
deleteDirectoryFilesUnchecked(table, dir) ==
    LET sanitizedPath == join(sanitizePath(dir), <<"/">>)
    IN  IF sanitizedPath = <<>>
        THEN [table |-> table,
              result |-> [success |-> FALSE, error |-> "DirectoryAlreadyEmpty"]]
        ELSE [table |-> DeleteLike(table, directoryPattern(sanitizedPath)),
              result |-> [success |-> TRUE]]

\* the delete that does not turn an empty sanitized path away
deleteDirectoryFilesAnyScope(table, dir) ==
    LET sanitizedPath == join(sanitizePath(dir), <<"/">>)
        after == DeleteLike(table, directoryPattern(sanitizedPath))
    IN  IF Len(table) - Len(after) = 0
        THEN [table |-> after,
              result |-> [success |-> FALSE, error |-> "DirectoryAlreadyEmpty"]]
        ELSE [table |-> after, result |-> [success |-> TRUE]]

deleteDirectoryFiles(table, dir) ==
    LET sanitizedPath == join(sanitizePath(dir), <<"/">>)
        directoryToDelete == directoryPattern(sanitizedPath)
        after == DeleteLike(table, directoryToDelete)
        changes == Len(table) - Len(after)
    IN  IF sanitizedPath = <<>>
        THEN [table |-> table,
              result |-> [success |-> FALSE, error |-> "DirectoryAlreadyEmpty"]]
        ELSE IF changes = 0
        THEN [table |-> after,
              result |-> [success |-> FALSE, error |-> "DirectoryAlreadyEmpty"]]
        ELSE [table |-> after, result |-> [success |-> TRUE]]

-----------------------------------------------------------------------------
(* renameFile and updateFileContent: the facade's relocate and update      *)
(* operations, each one transaction on the table                           *)

\* UPDATE sqlar SET name = ?, mtime = ? WHERE name = ?
UpdateName(table, name, newName, mtime) ==
    [i \in 1..Len(table) |->
        IF table[i].name = name
        THEN [table[i] EXCEPT !.name = newName, !.mtime = mtime]
        ELSE table[i]]

\* UPDATE sqlar SET mtime = ?, sz = ?, data = sqlar_compress(?) WHERE name = ?
UpdateContent(table, name, fileBuffer, mtime) ==
    [i \in 1..Len(table) |->
        IF table[i].name = name
        THEN [table[i] EXCEPT !.mtime = mtime, !.sz = Len(fileBuffer),
                              !.data = sqlar_compress(fileBuffer)]
        ELSE table[i]]

\* the rows an UPDATE ... WHERE name = ? changes
Changes(table, name) == Cardinality({i \in 1..Len(table) : table[i].name = name})

\* the destination directory: the source's when none is given; an optional
\* argument is <<>> when absent and <<value>> when given
destinationDir(dir, newDir) == IF newDir = <<>> THEN dir ELSE newDir[1]

renameFile(table, dir, fileName, newFileName, newDir, modifiedTime) ==
    LET fileNameWithPath == createFileNameWithPath(dir, fileName)
        newFileNameWithPath ==
            createFileNameWithPath(destinationDir(dir, newDir), newFileName)
    IN  IF fileExists(table, newFileNameWithPath)
        THEN [table |-> table,
              result |-> [success |-> FALSE, error |-> "FileAlreadyExists"]]
        ELSE IF Changes(table, fileNameWithPath) = 0
        THEN [table |-> table,
              result |-> [success |-> FALSE, error |-> "FileNotFound"]]
        ELSE [table |-> UpdateName(table, fileNameWithPath,
                                   newFileNameWithPath, modifiedTime),
              result |-> [success |-> TRUE,
                          oldFileNameWithPath |-> fileNameWithPath,
                          newFileNameWithPath |-> newFileNameWithPath]]

\* the update written as an insert-or-replace
updateFileContentUpsert(table, dir, fileName, fileBuffer, modifiedTime) ==
    LET fileNameWithPath == createFileNameWithPath(dir, fileName)
        row == [name |-> fileNameWithPath, mode |-> Mode644,
                mtime |-> modifiedTime, sz |-> Len(fileBuffer),
                data |-> sqlar_compress(fileBuffer)]
    IN  [table |-> IF Changes(table, fileNameWithPath) = 0
                   THEN Append(table, row)
                   ELSE UpdateContent(table, fileNameWithPath, fileBuffer,
                                      modifiedTime),
         result |-> [success |-> TRUE]]

updateFileContent(table, dir, fileName, fileBuffer, modifiedTime) ==
    LET fileNameWithPath == createFileNameWithPath(dir, fileName)
    IN  IF Changes(table, fileNameWithPath) = 0
        THEN [table |-> table,
              result |-> [success |-> FALSE, error |-> "FileNotFound"]]
        ELSE [table |-> UpdateContent(table, fileNameWithPath, fileBuffer,
                                      modifiedTime),
              result |-> [success |-> TRUE]]

-----------------------------------------------------------------------------
(* State and actions: one action per handler; storeFile of a Blob is two,   *)
(* the part before `await this.blobToBuffer(file)` and the part after it.   *)

NoCall == [active |-> FALSE]

Calls == 1..MaxCalls

Init ==
    /\ db = <<>>
    /\ pending = [c \in Calls |-> NoCall]
    /\ last = [op |-> "none", args |-> <<>>, result |-> <<>>]

StoreFile(dir, fileName, file, modifiedTime) ==
    LET fileNameWithPath == createFileNameWithPath(dir, fileName)
        args == [dir |-> dir, fileName |-> fileName, file |-> file,
                 modifiedTime |-> modifiedTime]
    IN  IF fileExists(db, fileNameWithPath)
        THEN /\ last' = [op |-> "storeFile", args |-> args,
                         result |-> [success |-> FALSE, error |-> "FileAlreadyExists"]]
             /\ UNCHANGED <<db, pending>>
        ELSE IF file.type = "Blob"
        THEN /\ \E c \in Calls :
                    /\ ~pending[c].active
                    /\ \A e \in 1..(c - 1) : pending[e].active
                    /\ pending' = [pending EXCEPT ![c] =
                           [active |-> TRUE, args |-> args,
                            fileNameWithPath |-> fileNameWithPath]]
             /\ UNCHANGED <<db, last>>
        ELSE LET r == storeFileInsert(db, fileNameWithPath, fileName,
                                      file.bytes, modifiedTime)
             IN  /\ Len(db) < MaxFiles
                 /\ db' = r.table
                 /\ last' = [op |-> "storeFile", args |-> args, result |-> r.result]
                 /\ UNCHANGED pending

StoreFileResume(c) ==
    /\ pending[c].active
    /\ LET p == pending[c]
           r == storeFileInsert(db, p.fileNameWithPath, p.args.fileName,
                                blobToBuffer(p.args.file), p.args.modifiedTime)
       IN  /\ Len(r.table) <= MaxFiles
           /\ db' = r.table
           /\ last' = [op |-> "storeFile", args |-> p.args, result |-> r.result]
    /\ pending' = [pending EXCEPT ![c] = NoCall]

RetrieveFile(dir, fileName) ==
    /\ last' = [op |-> "retrieveFile",
                args |-> [dir |-> dir, fileName |-> fileName],
                result |-> retrieveFile(db, dir, fileName)]
    /\ UNCHANGED <<db, pending>>

DeleteFile(dir, fileName) ==
    LET r == deleteFile(db, dir, fileName)
    IN  /\ db' = r.table
        /\ last' = [op |-> "deleteFile",
                    args |-> [dir |-> dir, fileName |-> fileName],
                    result |-> r.result]
        /\ UNCHANGED pending

GetTotalFiles ==
    /\ last' = [op |-> "getTotalFiles", args |-> <<>>, result |-> getTotalFiles(db)]
    /\ UNCHANGED <<db, pending>>

ListFiles(dir, filesPerPage, pageNumber, orderBy, order) ==
    /\ last' = [op |-> "listFiles",
                args |-> [dir |-> dir, filesPerPage |-> filesPerPage,
                          pageNumber |-> pageNumber, orderBy |-> orderBy,
                          order |-> order],
                result |-> listFiles(db, dir, filesPerPage, pageNumber,
                                     orderBy, order),
                prepared |-> scanStatement(orderBy, order)]
    /\ UNCHANGED <<db, pending>>

SearchFiles(fileName, dir, filesPerPage, pageNumber, orderBy, order) ==
    /\ last' = [op |-> "searchFiles",
                args |-> [fileName |-> fileName, dir |-> dir,
                          filesPerPage |-> filesPerPage,
                          pageNumber |-> pageNumber, orderBy |-> orderBy,
                          order |-> order],
                result |-> searchFiles(db, fileName, dir, filesPerPage,
                                       pageNumber, orderBy, order),
                prepared |-> scanStatement(orderBy, order)]
    /\ UNCHANGED <<db, pending>>

\* modifiedTime is the time of the call
RenameFile(dir, fileName, newFileName, newDir, modifiedTime) ==
    LET r == renameFile(db, dir, fileName, newFileName, newDir, modifiedTime)
    IN  /\ db' = r.table
        /\ last' = [op |-> "renameFile",
                    args |-> [dir |-> dir, fileName |-> fileName,
                              newFileName |-> newFileName, newDir |-> newDir,
                              modifiedTime |-> modifiedTime],
                    result |-> r.result]
        /\ UNCHANGED pending

UpdateFileContent(dir, fileName, file, modifiedTime) ==
    LET r == updateFileContent(db, dir, fileName, file.bytes, modifiedTime)
    IN  /\ db' = r.table
        /\ last' = [op |-> "updateFileContent",
                    args |-> [dir |-> dir, fileName |-> fileName, file |-> file,
                              modifiedTime |-> modifiedTime],
                    result |-> r.result]
        /\ UNCHANGED pending

DeleteAllFiles ==
    LET r == deleteAllFiles(db)
    IN  /\ db' = r.table
        /\ last' = [op |-> "deleteAllFiles", args |-> <<>>, result |-> r.result]
        /\ UNCHANGED pending

DeleteDirectoryFiles(dir) ==
    LET r == deleteDirectoryFiles(db, dir)
    IN  /\ db' = r.table
        /\ last' = [op |-> "deleteDirectoryFiles", args |-> [dir |-> dir],
                    result |-> r.result]
        /\ UNCHANGED pending

-----------------------------------------------------------------------------
(* Inputs *)

Bytes == {0, 1}

\* the byte buffers of at most n bytes
BuffersUpTo(n) == UNION {[1..k -> Bytes] : k \in 0..n}

Buffer(bytes) == [type |-> "Buffer", bytes |-> bytes]
Blob(bytes) == [type |-> "Blob", bytes |-> bytes]

\* what is stored: an empty file of the earliest time, a one-byte file of
\* the latest
Versions == {<<Buffer(<<>>), 1>>, <<Buffer(<<0>>), MaxMtime>>}

Name_x == <<"x">>
Name_X == <<"X">>
Name_y == <<"y">>

Name_slash_x == <<"/", "x">>
Name_c == <<"c">>
Name_b_c == <<"b", "/", "c">>

DirNone == <<>>
DirBlank == << <<>> >>
DirSpace == << <<" ">> >>
DirPercent == << <<"%">> >>
DirUnderscore == << <<"_">> >>
DirA == << <<"a">> >>
DirSpaceA == << <<" ", "a">> >>
DirAB == << <<"a">>, <<"b">> >>
DirAb == << <<"a", "b">> >>
DirUpperA == << <<"A">> >>
DirA_b == << <<"a", "_", "b">> >>
DirAXb == << <<"a", "X", "b">> >>

\* the defaults of listFiles' parameters
DefaultFilesPerPage == 20
DefaultPageNumber == 1

-----------------------------------------------------------------------------
(* Spec: callers that await each call before the next, storing Buffers *)

Dirs == {DirNone, DirA, DirSpaceA}
FileNames == {Name_x, Name_X}

Next ==
    \/ \E dir \in Dirs, fileName \in FileNames, v \in Versions :
          StoreFile(dir, fileName, v[1], v[2])
    \/ \E dir \in Dirs, fileName \in FileNames : RetrieveFile(dir, fileName)
    \/ \E dir \in Dirs, fileName \in FileNames : DeleteFile(dir, fileName)
    \/ \E dir \in Dirs : DeleteDirectoryFiles(dir)
    \/ DeleteAllFiles
    \/ GetTotalFiles

Spec == Init /\ [][Next]_vars

-----------------------------------------------------------------------------
(* SpecRoundTrip: the same callers storing every buffer of up to MaxLen    *)
(* bytes under one key, beside an entry under another                      *)

RoundTripDirs == {DirNone, DirA}
RoundTripFiles == {Buffer(b) : b \in BuffersUpTo(MaxLen)}

NextRoundTrip ==
    \/ \E file \in RoundTripFiles : StoreFile(DirA, Name_x, file, 1)
    \/ \E v \in Versions : StoreFile(DirNone, Name_x, v[1], v[2])
    \/ \E dir \in RoundTripDirs : RetrieveFile(dir, Name_x)
    \/ \E dir \in RoundTripDirs : DeleteFile(dir, Name_x)

SpecRoundTrip == Init /\ [][NextRoundTrip]_vars

-----------------------------------------------------------------------------
(* SpecConcurrent: callers that do not await one call before the next, so  *)
(* that storeFile calls of Blobs are suspended while other calls run       *)

ConcurrentFiles ==
    {Buffer(<<0>>), Buffer(<<1>>), Blob(<<0>>), Blob(<<1>>)}

NextConcurrent ==
    \/ \E fileName \in FileNames, file \in ConcurrentFiles :
          StoreFile(DirA, fileName, file, 1)
    \/ \E c \in Calls : StoreFileResume(c)
    \/ \E fileName \in FileNames : RetrieveFile(DirA, fileName)
    \/ \E fileName \in FileNames : DeleteFile(DirA, fileName)
    \/ DeleteDirectoryFiles(DirA)
    \/ DeleteAllFiles

SpecConcurrent == Init /\ [][NextConcurrent]_vars

-----------------------------------------------------------------------------
(* SpecScope: directories whose names are a prefix of, a wildcard for, or  *)
(* a different case of one another; listFiles is called as listFiles(dir)  *)

ScopeDirs == {DirNone, DirA, DirAB, DirAb, DirUpperA, DirA_b, DirAXb}

NextScope ==
    \/ \E dir \in ScopeDirs : StoreFile(dir, Name_x, Buffer(<<0>>), 1)
    \/ \E dir \in ScopeDirs : RetrieveFile(dir, Name_x)
    \/ \E dir \in ScopeDirs : DeleteFile(dir, Name_x)
    \/ \E dir \in ScopeDirs :
          ListFiles(dir, DefaultFilesPerPage, DefaultPageNumber, "name", "ASC")
    \/ \E dir \in ScopeDirs : DeleteDirectoryFiles(dir)
    \/ DeleteAllFiles
    \/ GetTotalFiles

SpecScope == Init /\ [][NextScope]_vars

-----------------------------------------------------------------------------
(* SpecList: a directory named with an underscore, beside a directory its  *)
(* name matches as a pattern, listed page by page under every sort field   *)
(* and direction                                                           *)

ListDirs == {DirA_b}
ListTargets == {<<DirA_b, Name_x>>, <<DirAXb, Name_x>>, <<DirAXb, Name_y>>}
PageSizes == 1..MaxPerPage
PageNumbers == 0..MaxPage
SortFields == {"name", "mtime", "sz"}
SortOrders == {"ASC", "DESC"}

NextList ==
    \/ \E t \in ListTargets, v \in Versions :
          StoreFile(t[1], t[2], v[1], v[2])
    \/ \E t \in ListTargets : DeleteFile(t[1], t[2])
    \/ \E dir \in ListDirs, filesPerPage \in PageSizes, pageNumber \in PageNumbers,
           orderBy \in SortFields, order \in SortOrders :
          ListFiles(dir, filesPerPage, pageNumber, orderBy, order)
    \/ \E dir \in ListDirs : DeleteDirectoryFiles(dir)

SpecList == Init /\ [][NextList]_vars

-----------------------------------------------------------------------------
(* SpecSearch: entries at the root and in one directory, listed and        *)
(* searched page by page, page numbers below 1 included                    *)

SearchDirs == {DirNone, DirA}
SearchTargets == {<<DirA, Name_x>>, <<DirA, Name_y>>, <<DirNone, Name_x>>}
SearchTerms == {<<>>, <<"a">>, <<"x">>}
AnyPageNumbers == (-1)..MaxPage

NextSearch ==
    \/ \E t \in SearchTargets : StoreFile(t[1], t[2], Buffer(<<0>>), 1)
    \/ \E t \in SearchTargets : DeleteFile(t[1], t[2])
    \/ \E dir \in SearchDirs, filesPerPage \in PageSizes,
           pageNumber \in AnyPageNumbers :
          ListFiles(dir, filesPerPage, pageNumber, "name", "ASC")
    \/ \E fileName \in SearchTerms, dir \in SearchDirs,
           filesPerPage \in PageSizes, pageNumber \in AnyPageNumbers :
          SearchFiles(fileName, dir, filesPerPage, pageNumber, "name", "ASC")

SpecSearch == Init /\ [][NextSearch]_vars

-----------------------------------------------------------------------------
(* SpecWrite: entries stored, given new content, renamed within and across *)
(* directories, and deleted; the larger content is stored compressed       *)

WriteTargets == {<<DirA, Name_x>>, <<DirA, Name_y>>, <<DirNone, Name_x>>}
WriteVersions ==
    {<<Buffer(<<>>), 1>>, <<Buffer([i \in 1..MaxLen |-> 0]), MaxMtime>>}
NewDirs == {<<>>, <<DirNone>>}

NextWrite ==
    \/ \E t \in WriteTargets, v \in WriteVersions :
          StoreFile(t[1], t[2], v[1], v[2])
    \/ \E t \in WriteTargets, v \in WriteVersions :
          UpdateFileContent(t[1], t[2], v[1], v[2])
    \/ \E t \in WriteTargets, newFileName \in {Name_x, Name_y},
           newDir \in NewDirs :
          RenameFile(t[1], t[2], newFileName, newDir, MaxMtime)
    \/ \E t \in WriteTargets : DeleteFile(t[1], t[2])

SpecWrite == Init /\ [][NextWrite]_vars

-----------------------------------------------------------------------------
(* SpecEmptyScope: directory arguments that sanitize to the empty path,    *)
(* beside entries at the root and in a directory, some under a file name   *)
(* that begins with a slash                                                *)

BlankDirs == {DirNone, DirBlank, DirSpace}
EmptyScopeDirs == BlankDirs \cup {DirA}
EmptyScopeTargets == {DirNone, DirA} \X {Name_x, Name_slash_x}

NextEmptyScope ==
    \/ \E t \in EmptyScopeTargets : StoreFile(t[1], t[2], Buffer(<<0>>), 1)
    \/ \E t \in EmptyScopeTargets : DeleteFile(t[1], t[2])
    \/ \E dir \in EmptyScopeDirs : DeleteDirectoryFiles(dir)
    \/ \E dir \in EmptyScopeDirs :
          ListFiles(dir, DefaultFilesPerPage, DefaultPageNumber, "name", "ASC")

SpecEmptyScope == Init /\ [][NextEmptyScope]_vars

-----------------------------------------------------------------------------
(* SpecConcurrentList: listings and searches of a directory issued while   *)
(* storeFile calls of Blobs are suspended and other calls write            *)

ConcurrentTargets == {<<DirA, Name_x>>, <<DirA, Name_y>>, <<DirNone, Name_x>>}
ListedPages == 1..MaxPage

NextConcurrentList ==
    \/ \E t \in ConcurrentTargets : StoreFile(t[1], t[2], Buffer(<<0>>), 1)
    \/ StoreFile(DirA, Name_x, Blob(<<0>>), 1)
    \/ \E c \in Calls : StoreFileResume(c)
    \/ \E t \in ConcurrentTargets : DeleteFile(t[1], t[2])
    \/ DeleteDirectoryFiles(DirA)
    \/ \E filesPerPage \in PageSizes, pageNumber \in ListedPages :
          ListFiles(DirA, filesPerPage, pageNumber, "name", "ASC")
    \/ \E filesPerPage \in PageSizes, pageNumber \in ListedPages :
          SearchFiles(Name_x, DirA, filesPerPage, pageNumber, "name", "ASC")

SpecConcurrentList == Init /\ [][NextConcurrentList]_vars

-----------------------------------------------------------------------------
(* SpecOrder: listings and searches by callers that are not held to the    *)
(* parameter types, so that orderBy and order are any text                 *)

OrderTargets == {<<DirA, Name_x>>, <<DirA, Name_y>>}
CallerSortFields == SortFields \cup {"mode"}
CallerSortOrders == SortOrders \cup {"asc"}

NextOrder ==
    \/ \E t \in OrderTargets, v \in Versions :
          StoreFile(t[1], t[2], v[1], v[2])
    \/ \E t \in OrderTargets : DeleteFile(t[1], t[2])
    \/ \E orderBy \in CallerSortFields, order \in CallerSortOrders :
          ListFiles(DirA, DefaultFilesPerPage, DefaultPageNumber, orderBy, order)
    \/ \E orderBy \in CallerSortFields, order \in CallerSortOrders :
          SearchFiles(Name_x, DirNone, DefaultFilesPerPage, DefaultPageNumber,
                      orderBy, order)

SpecOrder == Init /\ [][NextOrder]_vars

-----------------------------------------------------------------------------
(* SpecSanitize: sanitizePath applied to every path of up to MaxSegs       *)
(* segments of up to MaxSegLen characters, and to what it returned         *)

SegmentChars == {" ", "/", "a"}
Segments ==
    UNION {[1..k -> SegmentChars] : k \in 0..MaxSegLen}
        \cup {<<"\\">>, <<" ", "a", "\\", " ">>}
FilePaths == UNION {[1..k -> Segments] : k \in 0..MaxSegs}

InitSanitize ==
    /\ db = <<>>
    /\ pending = [c \in Calls |-> NoCall]
    /\ \E filePath \in FilePaths :
          last = [op |-> "none", args |-> [filePath |-> filePath], result |-> <<>>]

SanitizePath ==
    /\ last.op = "none"
    /\ last' = [op |-> "sanitizePath", args |-> last.args,
                result |-> sanitizePath(last.args.filePath)]
    /\ UNCHANGED <<db, pending>>

SanitizeAgain ==
    /\ last.op = "sanitizePath"
    /\ last' = [op |-> "sanitizePath", args |-> [filePath |-> last.result],
                result |-> sanitizePath(last.result)]
    /\ UNCHANGED <<db, pending>>

NextSanitize == SanitizePath \/ SanitizeAgain

SpecSanitize == InitSanitize /\ [][NextSanitize]_vars

-----------------------------------------------------------------------------
(* SpecNamespace: a file name with a slash in one directory, beside the    *)
(* name after the slash in the directory the slash would open              *)

NamespaceTargets == {<<DirA, Name_b_c>>, <<DirAB, Name_c>>, <<DirA, Name_x>>}

NextNamespace ==
    \/ \E t \in NamespaceTargets, v \in Versions :
          StoreFile(t[1], t[2], v[1], v[2])
    \/ \E t \in NamespaceTargets : RetrieveFile(t[1], t[2])
    \/ \E t \in NamespaceTargets : DeleteFile(t[1], t[2])

SpecNamespace == Init /\ [][NextNamespace]_vars

-----------------------------------------------------------------------------
(* SpecRead: entries at the root and in a directory, read by every         *)
(* operation that reads; the directories listed include the empty ones and *)
(* ones named with a wildcard                                              *)

ReadDirs == {DirNone, DirBlank, DirA, DirPercent, DirUnderscore}
ReadTargets == {<<DirNone, Name_x>>, <<DirNone, Name_y>>, <<DirA, Name_x>>}

NextRead ==
    \/ \E t \in ReadTargets : StoreFile(t[1], t[2], Buffer(<<0>>), 1)
    \/ \E t \in ReadTargets : DeleteFile(t[1], t[2])
    \/ \E t \in ReadTargets : RetrieveFile(t[1], t[2])
    \/ \E dir \in ReadDirs :
          ListFiles(dir, DefaultFilesPerPage, DefaultPageNumber, "name", "ASC")
    \/ \E fileName \in {Name_x, Name_y}, dir \in {DirNone, DirA} :
          SearchFiles(fileName, dir, DefaultFilesPerPage, DefaultPageNumber,
                      "name", "ASC")
    \/ GetTotalFiles

SpecRead == Init /\ [][NextRead]_vars

-----------------------------------------------------------------------------
(* Vocabulary of the claims *)

\* some entry of the archive has this key
KeyPresent(table, key) == \E i \in 1..Len(table) : table[i].name = key

\* the entry of the archive with this key
EntryOf(table, key) == table[CHOOSE i \in 1..Len(table) : table[i].name = key]

\* the set of entries of the archive
Entries(table) == {table[i] : i \in 1..Len(table)}

FileAlreadyExists == [success |-> FALSE, error |-> "FileAlreadyExists"]
FileNotFound == [success |-> FALSE, error |-> "FileNotFound"]

-----------------------------------------------------------------------------
(* C1: a storeFile call whose composed key is already in the archive       *)
(* returns {success: false, error: "FileAlreadyExists"} and leaves the     *)
(* archive, so the existing entry's content, sz and mtime, as it was; and  *)
(* once a store of (dir, name) has succeeded the key is present, so a      *)
(* second store of the same (dir, name) is such a call.                    *)
C1_StoreExistingFails ==
    [][last'.op = "storeFile" =>
          LET dir == last'.args.dir
              fileName == last'.args.fileName
              key == createFileNameWithPath(dir, fileName)
              stored == StoreFile(dir, fileName, last'.args.file,
                                  last'.args.modifiedTime)
          IN  /\ (KeyPresent(db, key) /\ stored)
                    => /\ last'.result = FileAlreadyExists
                       /\ db' = db
                       /\ EntryOf(db', key) = EntryOf(db, key)
              /\ (stored /\ last'.result = [success |-> TRUE, fileName |-> fileName,
                                            fileNameWithPath |-> key])
                    => KeyPresent(db', key)]_vars

C1_Witness ==
    /\ last.op = "storeFile"
    /\ last.result = FileAlreadyExists
    /\ KeyPresent(db, createFileNameWithPath(last.args.dir, last.args.fileName))

-----------------------------------------------------------------------------
(* C5: deleteFile of a (dir, name) whose key is absent returns             *)
(* {success: false, error: "FileNotFound"} and leaves the archive as it    *)
(* was, so that repeating the call gives the same result.                  *)
C5_DeleteAbsent ==
    [][last'.op = "deleteFile" =>
          LET dir == last'.args.dir
              fileName == last'.args.fileName
          IN  (~KeyPresent(db, createFileNameWithPath(dir, fileName))
                  /\ DeleteFile(dir, fileName))
                => /\ last'.result = FileNotFound
                   /\ db' = db
                   /\ deleteFile(db', dir, fileName).result = FileNotFound
                   /\ deleteFile(db', dir, fileName).table = db]_vars

C5_Witness ==
    /\ last.op = "deleteFile"
    /\ last.result = FileNotFound
    /\ db # <<>>

-----------------------------------------------------------------------------
(* C6: deleteFile of an existing (dir, name) returns success and removes   *)
(* the entry with the composed key and no other; a retrieveFile of the     *)
(* same (dir, name) then returns FileNotFound without a file; and          *)
(* retrieveFile returns FileNotFound exactly when no entry has the key.    *)
C6_DeleteExisting ==
    /\ [](\A dir \in Dirs, fileName \in FileNames :
            (retrieveFile(db, dir, fileName) = FileNotFound)
              <=> ~KeyPresent(db, createFileNameWithPath(dir, fileName)))
    /\ [][last'.op = "deleteFile" =>
            LET dir == last'.args.dir
                fileName == last'.args.fileName
                key == createFileNameWithPath(dir, fileName)
            IN  (KeyPresent(db, key) /\ DeleteFile(dir, fileName))
                  => /\ last'.result = [success |-> TRUE]
                     /\ Entries(db') = Entries(db) \ {EntryOf(db, key)}
                     /\ Len(db') = Len(db) - 1
                     /\ retrieveFile(db', dir, fileName) = FileNotFound]_vars

C6_Witness ==
    /\ last.op = "deleteFile"
    /\ last.result = [success |-> TRUE]
    /\ db # <<>>
    /\ retrieveFile(db, last.args.dir, last.args.fileName) = FileNotFound

-----------------------------------------------------------------------------
(* C2: round trip.  A storeFile of buffer b at a (dir, name) whose key is  *)
(* absent succeeds, and a retrieveFile of the same (dir, name) right after *)
(* it succeeds and returns b as content, with sz the byte length of b and  *)
(* mode 0o644.                                                             *)
C2_RoundTrip ==
    /\ [](/\ last.op = "storeFile"
           /\ "success" \in DOMAIN last.result
           /\ last.result.success
           => LET r == retrieveFile(db, last.args.dir, last.args.fileName)
              IN  /\ r.success
                  /\ r.file.data = last.args.file.bytes
                  /\ r.file.sz = Len(last.args.file.bytes)
                  /\ r.file.mode = 420)
    /\ [][last'.op = "storeFile" =>
            LET dir == last'.args.dir
                fileName == last'.args.fileName
                key == createFileNameWithPath(dir, fileName)
            IN  (/\ ~KeyPresent(db, key)
                 /\ last'.args.file.type = "Buffer"
                 /\ StoreFile(dir, fileName, last'.args.file,
                              last'.args.modifiedTime))
                  => last'.result = [success |-> TRUE, fileName |-> fileName,
                                     fileNameWithPath |-> key]]_vars

\* a three-byte buffer that is stored compressed, beside another entry
C2_Witness ==
    /\ last.op = "storeFile"
    /\ "success" \in DOMAIN last.result
    /\ last.result.success
    /\ Len(last.args.file.bytes) = 3
    /\ Len(db) = 2
    /\ EntryOf(db, last.result.fileNameWithPath).data # last.args.file.bytes
    /\ retrieveFile(db, last.args.dir, last.args.fileName).file.data
          = last.args.file.bytes

-----------------------------------------------------------------------------
(* C3: key uniqueness.  Whatever storeFile, deleteFile,                    *)
(* deleteDirectoryFiles and deleteAllFiles calls have run, and however     *)
(* they interleaved, no two entries of the archive have the same key.      *)
C3_KeysUnique ==
    \A i, j \in 1..Len(db) : i # j => db[i].name # db[j].name

\* two entries, and a store that lost the race for a key to another store
C3_Witness ==
    /\ Len(db) = 2
    /\ last.op = "storeFile"
    /\ "thrown" \in DOMAIN last.result

-----------------------------------------------------------------------------
(* C4: the existence check and the insert of storeFile are effectively     *)
(* atomic.  When a storeFile call resumes after its blob conversion and    *)
(* another call has inserted its key in the meantime, the call inserts     *)
(* nothing and returns {success: false, error: "FileAlreadyExists"} as a   *)
(* value: it does not throw.                                               *)
C4_StoreRaceReturnsError ==
    [][\A c \in Calls :
          (pending[c].active
              /\ KeyPresent(db, pending[c].fileNameWithPath)
              /\ StoreFileResume(c))
            => /\ db' = db
               /\ last'.result = FileAlreadyExists]_vars

-----------------------------------------------------------------------------
(* Directories, as the claims speak of them *)

\* "/<sanitized segments joined by />/"
DirectoryPrefix(dir) == <<"/">> \o join(sanitizePath(dir), <<"/">>) \o <<"/">>

\* the entries of the archive whose key begins with the directory's prefix
DirectoryEntries(table, dir) ==
    {row \in Entries(table) : StartsWith(row.name, DirectoryPrefix(dir))}

\* the keys a list result returns
ListedNames(result) == {result.files[i].name : i \in 1..Len(result.files)}

\* the files of pages 1..n of a directory, one page after the other
RECURSIVE PagesUpTo(_, _, _, _, _, _)
PagesUpTo(table, dir, filesPerPage, n, orderBy, order) ==
    IF n = 0 THEN <<>>
    ELSE PagesUpTo(table, dir, filesPerPage, n - 1, orderBy, order)
           \o listFiles(table, dir, filesPerPage, n, orderBy, order).files

\* the value an entry is sorted on
SortValue(table, name, orderBy) ==
    CASE orderBy = "mtime" -> EntryOf(table, name).mtime
      [] orderBy = "sz"    -> EntryOf(table, name).sz

\* entry named a may come before entry named b under the requested sort
InOrder(table, a, b, orderBy, order) ==
    IF orderBy = "name"
    THEN IF order = "ASC" THEN ~StrLess(b, a) ELSE ~StrLess(a, b)
    ELSE IF order = "ASC"
         THEN SortValue(table, a, orderBy) <= SortValue(table, b, orderBy)
         ELSE SortValue(table, a, orderBy) >= SortValue(table, b, orderBy)

\* pages 1..ceil(N/P) of dir hold each of its N entries once, in sort order
PagesCover(dir) ==
    \A filesPerPage \in PageSizes, orderBy \in SortFields, order \in SortOrders :
        LET N == Cardinality(DirectoryEntries(db, dir))
            pages == (N + filesPerPage - 1) \div filesPerPage
            all == PagesUpTo(db, dir, filesPerPage, pages, orderBy, order)
        IN  /\ \A e \in DirectoryEntries(db, dir) :
                  Cardinality({i \in 1..Len(all) : all[i].name = e.name}) = 1
            /\ \A i, j \in 1..Len(all) :
                  i < j => InOrder(db, all[i].name, all[j].name, orderBy, order)

\* totalFiles, the length of the page and its first entry are those of dir
PageOf(dir) ==
    \A filesPerPage \in PageSizes, pageNumber \in PageNumbers,
       orderBy \in SortFields, order \in SortOrders :
        LET r == listFiles(db, dir, filesPerPage, pageNumber, orderBy, order)
            inDir == DirectoryEntries(db, dir)
            N == Cardinality(inDir)
            offset == IF pageNumber <= 1 THEN 0 ELSE (pageNumber - 1) * filesPerPage
            rest == IF N - offset > 0 THEN N - offset ELSE 0
        IN  /\ r.totalFiles = N
            /\ r.currentPage = pageNumber
            /\ Len(r.files) = IF filesPerPage < rest THEN filesPerPage ELSE rest
            /\ (pageNumber = 1 /\ N > 0)
                  => /\ r.files[1].name \in {e.name : e \in inDir}
                     /\ \A e \in inDir :
                           InOrder(db, r.files[1].name, e.name, orderBy, order)

-----------------------------------------------------------------------------
(* C7: pagination coverage.  For the N entries of a directory and page     *)
(* size P, pages 1..ceil(N/P) of listFiles, read with no write in between, *)
(* together hold every entry of the directory exactly once, in an order    *)
(* consistent with the sort field and direction, ties included.            *)
C7_PagesCoverDirectory == \A dir \in ListDirs : PagesCover(dir)

-----------------------------------------------------------------------------
(* C10: for a directory holding N entries, listFiles returns totalFiles =  *)
(* N whatever the page and page size, min(P, max(0, N - offset)) entries,  *)
(* the requested page number as currentPage and, on page 1, the extreme of *)
(* the directory under the requested sort as first entry.                  *)
C10_PageShape == \A dir \in ListDirs : PageOf(dir)

-----------------------------------------------------------------------------
(* C8: prefix isolation.  With entries at /a/x and /ab/x,                  *)
(* deleteDirectoryFiles(["a"]) removes /a/x and leaves /ab/x present and   *)
(* unchanged, and listFiles(["a"]) returns /a/x and not /ab/x.             *)
KeyAX == createFileNameWithPath(DirA, Name_x)
KeyAbX == createFileNameWithPath(DirAb, Name_x)

C8_PrefixIsolation ==
    /\ []((KeyPresent(db, KeyAX) /\ KeyPresent(db, KeyAbX))
            => LET names == ListedNames(listFiles(db, DirA, DefaultFilesPerPage,
                                         DefaultPageNumber, "name", "ASC"))
               IN  KeyAX \in names /\ KeyAbX \notin names)
    /\ [][(/\ last'.op = "deleteDirectoryFiles"
           /\ KeyPresent(db, KeyAX)
           /\ KeyPresent(db, KeyAbX)
           /\ DeleteDirectoryFiles(DirA))
            => /\ last'.result = [success |-> TRUE]
               /\ ~KeyPresent(db', KeyAX)
               /\ KeyPresent(db', KeyAbX)
               /\ EntryOf(db', KeyAbX) = EntryOf(db, KeyAbX)]_vars

C8_Witness ==
    /\ KeyPresent(db, KeyAX)
    /\ KeyPresent(db, KeyAbX)
    /\ last.op = "listFiles"
    /\ last.args.dir = DirA
    /\ ListedNames(last.result) = {KeyAX}

-----------------------------------------------------------------------------
(* C9: directory scope is a literal, case-sensitive, left-anchored prefix. *)
(* listFiles(dir) returns, and deleteDirectoryFiles(dir) removes, exactly  *)
(* the entries whose key begins with "/<sanitized segments joined by />/": *)
(* an underscore matches only an underscore, and letter case must match.   *)
C9_ScopeIsLiteralPrefix ==
    \A dir \in ScopeDirs :
        /\ ListedNames(listFiles(db, dir, DefaultFilesPerPage, DefaultPageNumber,
                                 "name", "ASC"))
              = {e.name : e \in DirectoryEntries(db, dir)}
        /\ Entries(deleteDirectoryFiles(db, dir).table)
              = Entries(db) \ DirectoryEntries(db, dir)

-----------------------------------------------------------------------------
(* Searches, as the claims speak of them *)

\* string t occurs in string s
Contains(s, t) ==
    \E i \in 1..(Len(s) - Len(t) + 1) : SubSeq(s, i, i + Len(t) - 1) = t

\* the two searches return the same entries and the same totalFiles
SameSearchResult(r, q) ==
    /\ r.files = q.files
    /\ r.totalFiles = q.totalFiles

-----------------------------------------------------------------------------
(* C11: searchFiles with an empty directory scope matches over the whole   *)
(* archive and a non-empty scope restricts the match to that subtree: for  *)
(* every substring s and directory d, when no entry outside d has a key    *)
(* containing s, searchFiles(s, []) and searchFiles(s, d) return the same  *)
(* entries and the same totalFiles.                                        *)
C11_SearchScopeAgrees ==
    \A s \in SearchTerms, d \in SearchDirs :
        (/\ sanitizePath(d) # <<>>
         /\ \A e \in Entries(db) \ DirectoryEntries(db, d) : ~Contains(e.name, s))
          => \A filesPerPage \in PageSizes, pageNumber \in AnyPageNumbers :
                SameSearchResult(
                    searchFiles(db, s, DirNone, filesPerPage, pageNumber,
                                "name", "ASC"),
                    searchFiles(db, s, d, filesPerPage, pageNumber,
                                "name", "ASC"))

-----------------------------------------------------------------------------
(* C12: renaming a file to a (destination dir, new name) whose key is      *)
(* already present fails with error "FileAlreadyExists", and afterwards    *)
(* the source entry under its old key and the entry that was at the        *)
(* destination are both still retrievable, and unchanged.                  *)
C12_RenameCollisionFails ==
    [][last'.op = "renameFile" =>
          LET dir == last'.args.dir
              fileName == last'.args.fileName
              newFileName == last'.args.newFileName
              toDir == destinationDir(dir, last'.args.newDir)
              oldKey == createFileNameWithPath(dir, fileName)
              newKey == createFileNameWithPath(toDir, newFileName)
          IN  (/\ KeyPresent(db, oldKey)
               /\ KeyPresent(db, newKey)
               /\ RenameFile(dir, fileName, newFileName, last'.args.newDir,
                             last'.args.modifiedTime))
                => /\ last'.result = FileAlreadyExists
                   /\ retrieveFile(db', dir, fileName).success
                   /\ retrieveFile(db', dir, fileName)
                         = retrieveFile(db, dir, fileName)
                   /\ retrieveFile(db', toDir, newFileName).success
                   /\ retrieveFile(db', toDir, newFileName)
                         = retrieveFile(db, toDir, newFileName)
                   /\ EntryOf(db', oldKey) = EntryOf(db, oldKey)
                   /\ EntryOf(db', newKey) = EntryOf(db, newKey)]_vars

\* a rename across directories refused because the destination key is taken
C12_Witness ==
    /\ last.op = "renameFile"
    /\ last.result = FileAlreadyExists
    /\ last.args.newDir # <<>>
    /\ LET oldKey == createFileNameWithPath(last.args.dir, last.args.fileName)
           newKey == createFileNameWithPath(
                         destinationDir(last.args.dir, last.args.newDir),
                         last.args.newFileName)
       IN  /\ oldKey # newKey
           /\ KeyPresent(db, oldKey)
           /\ KeyPresent(db, newKey)

-----------------------------------------------------------------------------
(* C19: after any sequence of operations, every entry of the archive has   *)
(* sz equal to the byte length of its content before compression and mode  *)
(* equal to 0o644.                                                         *)
C19_SizeAndMode ==
    \A i \in 1..Len(db) :
        /\ db[i].mode = 420
        /\ \E b \in BuffersUpTo(MaxLen) :
              /\ db[i].data = sqlar_compress(b)
              /\ db[i].sz = Len(b)

\* an entry whose content was replaced by content that is stored compressed
C19_Witness ==
    /\ last.op = "updateFileContent"
    /\ last.result = [success |-> TRUE]
    /\ \E i \in 1..Len(db) :
          /\ db[i].sz = MaxLen
          /\ Len(db[i].data) < MaxLen

-----------------------------------------------------------------------------
-----------------------------------------------------------------------------
(* Error results of the bulk deletes *)

DirectoryAlreadyEmpty == [success |-> FALSE, error |-> "DirectoryAlreadyEmpty"]

\* the entries the delete and the listing of a directory select
Matched(table, dir) ==
    RowsLike(table, directoryPattern(join(sanitizePath(dir), <<"/">>)))

-----------------------------------------------------------------------------
(* C13: deleteDirectoryFiles on a non-empty directory path that matches no *)
(* entry returns {success: false, error: "DirectoryAlreadyEmpty"} and      *)
(* leaves the archive as it was; when it matches at least one entry it     *)
(* returns success, and a listFiles of the same directory that follows     *)
(* returns no entries.                                                     *)
C13_DeleteDirectory ==
    [][last'.op = "deleteDirectoryFiles" =>
          LET dir == last'.args.dir
              listed == listFiles(db', dir, DefaultFilesPerPage,
                                  DefaultPageNumber, "name", "ASC")
          IN  (sanitizePath(dir) # <<>> /\ DeleteDirectoryFiles(dir))
                => IF Matched(db, dir) = <<>>
                   THEN /\ last'.result = DirectoryAlreadyEmpty
                        /\ db' = db
                   ELSE /\ last'.result = [success |-> TRUE]
                        /\ listed.files = <<>>
                        /\ listed.totalFiles = 0]_vars

\* a directory emptied while an entry of another directory stays
C13_Witness ==
    /\ last.op = "deleteDirectoryFiles"
    /\ last.result = [success |-> TRUE]
    /\ db # <<>>
    /\ listFiles(db, last.args.dir, DefaultFilesPerPage, DefaultPageNumber,
                 "name", "ASC").files = <<>>

-----------------------------------------------------------------------------
-----------------------------------------------------------------------------
-----------------------------------------------------------------------------
(* C16: listFiles never fails: on a directory with no entries, and on a    *)
(* directory argument whose segments are all blank, it returns success     *)
(* with an empty list of files and totalFiles 0, also when the archive     *)
(* holds entries elsewhere.                                                *)
C16_ListEmptyDirectory ==
    \A dir \in ListDirs \cup {DirBlank, DirSpace} :
        (DirectoryEntries(db, dir) = {} \/ sanitizePath(dir) = <<>>)
          => \A filesPerPage \in PageSizes, pageNumber \in PageNumbers :
                LET r == listFiles(db, dir, filesPerPage, pageNumber,
                                   "name", "ASC")
                IN  /\ r.success
                    /\ r.files = <<>>
                    /\ r.totalFiles = 0

-----------------------------------------------------------------------------
(* Pages, as the claims speak of them *)

\* the part of a full listing that begins after offset and has at most
\* filesPerPage entries
PageAt(full, offset, filesPerPage) ==
    SubSeq(full, offset + 1,
           IF offset + filesPerPage < Len(full)
           THEN offset + filesPerPage ELSE Len(full))

\* the same call as the last one, with another page size and page number
LastCallWith(filesPerPage, pageNumber) ==
    IF last.op = "listFiles"
    THEN listFiles(db, last.args.dir, filesPerPage, pageNumber,
                   last.args.orderBy, last.args.order)
    ELSE searchFiles(db, last.args.fileName, last.args.dir, filesPerPage,
                     pageNumber, last.args.orderBy, last.args.order)

-----------------------------------------------------------------------------
(* C17: in listFiles and searchFiles the scan offset is 0 for every page   *)
(* number <= 1, 0 and negative numbers included, and (page - 1) x pageSize *)
(* otherwise, so every page number <= 1 returns the entries of page 1.     *)
C17_PageOffset ==
    last.op \in {"listFiles", "searchFiles"} =>
        LET filesPerPage == last.args.filesPerPage
            pageNumber == last.args.pageNumber
            full == LastCallWith(Len(db) + 1, 1).files
        IN  IF pageNumber <= 1
            THEN /\ last.result.files = PageAt(full, 0, filesPerPage)
                 /\ last.result.files = LastCallWith(filesPerPage, 1).files
            ELSE last.result.files
                    = PageAt(full, (pageNumber - 1) * filesPerPage, filesPerPage)

\* a search of page -1 that returns the first of two matching entries
C17_Witness ==
    /\ last.op = "searchFiles"
    /\ last.args.pageNumber = -1
    /\ last.result.totalFiles = 2
    /\ Len(last.result.files) = 1
    /\ last.result.files = LastCallWith(1, 1).files

-----------------------------------------------------------------------------
(* C18: the count and the page scan of one listFiles or searchFiles call   *)
(* see the same state of the archive: however the call interleaves with    *)
(* storeFile, deleteFile and deleteDirectoryFiles calls, totalFiles is the *)
(* number of entries matching the scope in the state from which the        *)
(* returned page was read.                                                 *)
C18_CountMatchesScan ==
    [][(last'.op \in {"listFiles", "searchFiles"} /\ last' # last) =>
          LET args == last'.args
              pattern ==
                  IF last'.op = "listFiles"
                  THEN <<"/">> \o join(sanitizePath(args.dir), <<"/">>)
                         \o <<"/", "%">>
                  ELSE <<"/">> \o join(sanitizePath(args.dir), <<"/">>)
                         \o <<"/", "%">> \o args.fileName \o <<"%">>
              matching == {e \in Entries(db) : Like(pattern, e.name)}
              offset == (args.pageNumber - 1) * args.filesPerPage
              rest == IF Cardinality(matching) > offset
                      THEN Cardinality(matching) - offset ELSE 0
          IN  /\ db' = db
              /\ last'.result.totalFiles = Cardinality(matching)
              /\ ListedNames(last'.result) \subseteq {e.name : e \in matching}
              /\ Len(last'.result.files)
                    = IF args.filesPerPage < rest THEN args.filesPerPage
                      ELSE rest]_vars

\* a listing returned while a store of the listed directory is suspended
C18_Witness ==
    /\ last.op = "listFiles"
    /\ last.result.totalFiles = 1
    /\ Len(last.result.files) = 1
    /\ \E c \in Calls : pending[c].active

-----------------------------------------------------------------------------
(* C21: listFiles and searchFiles only ever run a scan whose sort field is *)
(* one of name, mtime, sz and whose direction is one of ASC, DESC: any     *)
(* other value a caller supplies is held against that fixed set and never  *)
(* reaches the text of the query.                                          *)
AllowedScans ==
    {<<"ORDER BY", orderBy, order, "LIMIT">> :
        orderBy \in {"name", "mtime", "sz"}, order \in {"ASC", "DESC"}}

C21_SortIsValidated ==
    last.op \in {"listFiles", "searchFiles"} => last.prepared \in AllowedScans

-----------------------------------------------------------------------------
(* Segments, as the claims speak of them *)

Separators == {"/", "\\", " "}

\* the segment has a character that is not whitespace
NonBlank(seg) == \E i \in 1..Len(seg) : seg[i] # " "

\* the positions of the segments that are not empty after trimming
Kept(filePath) == {i \in 1..Len(filePath) : NonBlank(filePath[i])}

\* the first and the last position of a segment that is not whitespace
FirstInk(seg) ==
    CHOOSE i \in 1..Len(seg) : seg[i] # " " /\ \A j \in 1..(i - 1) : seg[j] = " "
LastInk(seg) ==
    CHOOSE i \in 1..Len(seg) :
        seg[i] # " " /\ \A j \in (i + 1)..Len(seg) : seg[j] = " "

\* the trimmed segment with "_" for each separator
Cleaned(seg) ==
    [k \in 1..(LastInk(seg) - FirstInk(seg) + 1) |->
        LET c == seg[FirstInk(seg) + k - 1]
        IN  IF c \in Separators THEN "_" ELSE c]

-----------------------------------------------------------------------------
(* C22: sanitizePath, for every sequence of segments, drops exactly the    *)
(* segments that are empty after trimming, keeps the others in their input *)
(* order without deduplication, and maps each kept segment to its trimmed  *)
(* form with every "/", backslash and whitespace character replaced by     *)
(* "_"; so no output segment is empty or contains one of these, and        *)
(* sanitizing twice gives the same result as sanitizing once.              *)
C22_Sanitize ==
    last.op = "sanitizePath" =>
        LET filePath == last.args.filePath
            out == last.result
        IN  /\ Len(out) = Cardinality(Kept(filePath))
            /\ \A i \in Kept(filePath) :
                  out[Cardinality({j \in Kept(filePath) : j <= i})]
                      = Cleaned(filePath[i])
            /\ \A k \in 1..Len(out) :
                  /\ out[k] # <<>>
                  /\ \A n \in 1..Len(out[k]) : out[k][n] \notin Separators
            /\ sanitizePath(out) = out

\* a blank segment dropped and a segment trimmed, its backslash replaced
C22_Witness ==
    /\ last.op = "sanitizePath"
    /\ last.args.filePath = << <<" ">>, <<" ", "a", "\\", " ">> >>
    /\ last.result = << <<"a", "_">> >>

-----------------------------------------------------------------------------
(* C23: the namespace of the archive is unambiguous.  Two (dir, fileName)  *)
(* pairs whose sanitized segment sequences differ or whose file names      *)
(* differ compose to different keys, so an entry stored at one pair is not *)
(* rejected, retrieved or deleted through the other: the file name adds no *)
(* level to the hierarchy.                                                 *)
C23_NamespaceUnambiguous ==
    \A p, q \in NamespaceTargets :
        (/\ sanitizePath(p[1]) # sanitizePath(q[1]) \/ p[2] # q[2]
         /\ last.op = "storeFile"
         /\ last.args.dir = p[1]
         /\ last.args.fileName = p[2]
         /\ "success" \in DOMAIN last.result
         /\ last.result.success
         /\ Len(db) = 1)
          => /\ createFileNameWithPath(p[1], p[2])
                   # createFileNameWithPath(q[1], q[2])
             /\ ~fileExists(db, createFileNameWithPath(q[1], q[2]))
             /\ retrieveFile(db, q[1], q[2]) = FileNotFound
             /\ deleteFile(db, q[1], q[2]).table = db

-----------------------------------------------------------------------------
(* C24: an entry stored with an empty directory and a file name without    *)
(* "/" (key "/<fileName>") is returned by no listFiles call, whatever the  *)
(* directory argument, the empty array included, although getTotalFiles    *)
(* counts it, retrieveFile([], fileName) retrieves it and searchFiles with *)
(* an empty scope finds it.                                                *)
C24_RootEntriesUnlisted ==
    \A fileName \in {Name_x, Name_y} :
        LET key == <<"/">> \o fileName
        IN  KeyPresent(db, key) =>
              /\ \A dir \in ReadDirs,
                    filesPerPage \in PageSizes \cup {DefaultFilesPerPage},
                    pageNumber \in PageNumbers :
                    key \notin ListedNames(listFiles(db, dir, filesPerPage,
                                                     pageNumber, "name", "ASC"))
              /\ getTotalFiles(db).total = Cardinality(Entries(db))
              /\ retrieveFile(db, DirNone, fileName).success
              /\ retrieveFile(db, DirNone, fileName).file.name = key
              /\ key \in ListedNames(searchFiles(db, fileName, DirNone,
                                                  DefaultFilesPerPage,
                                                  DefaultPageNumber, "name", "ASC"))

\* a listing under a wildcard that returns the entry of the directory and
\* not the entry at the root
C24_Witness ==
    /\ last.op = "listFiles"
    /\ last.args.dir = DirPercent
    /\ KeyPresent(db, <<"/">> \o Name_x)
    /\ ListedNames(last.result) = {KeyAX}

-----------------------------------------------------------------------------
(* C25: retrieveFile, listFiles, searchFiles and getTotalFiles leave the   *)
(* archive as it was: the set of entries and every entry's content, sz,    *)
(* mtime and mode are the same before and after the call, whatever the     *)
(* arguments; and getTotalFiles returns the number of entries that the     *)
(* archive holds.                                                          *)
C25_ReadsChangeNothing ==
    [][(/\ last'.op \in {"retrieveFile", "listFiles", "searchFiles",
                          "getTotalFiles"}
        /\ last' # last)
          => /\ db' = db
             /\ Entries(db') = Entries(db)
             /\ last'.op = "getTotalFiles"
                   => last'.result.total = Cardinality(Entries(db'))]_vars

\* a count of two entries, one of them at the root
C25_Witness ==
    /\ last.op = "getTotalFiles"
    /\ last.result.total = 2
    /\ Cardinality(Entries(db)) = 2
    /\ KeyPresent(db, <<"/">> \o Name_x)

=============================================================================
